---- MODULE Spec2Model ----
(***************************************************************************)
(* The k-way streaming merger of src/lua/merger.c: struct merger, its      *)
(* source cursors, the heap of cursors, and the operations start, next,    *)
(* cmp and gc (destroy), together with the host state they act on: the Lua *)
(* registry, the tuple reference counts and the borrowed input buffers.    *)
(***************************************************************************)
EXTENDS Integers, Sequences, FiniteSets, TLC

\* ------------------------------------------------------------------ bounds
MaxSources == 2      \* longest source list passed to start
MaxLen == 2          \* most tuples one source supplies
MaxKey == 2          \* keys are 1..MaxKey
MaxStarts == 2       \* start calls in one behaviour
MaxParts == 2        \* most key parts given to new

\* ------------------------------------------------------- program constants
InitialCapacity == 8
IPROTO_DATA == 48
HeaderLen == 3       \* map header, key, array header: one unit each

Keys == 1..MaxKey

\* struct tuple *: a tuple is known by the source that supplied it, its
\* ordinal in that source, and its key field.
NoTuple == [src |-> 0, n |-> 0, key |-> 0]

RECURSIVE SeqsUpTo(_, _)
SeqsUpTo(S, n) ==
    IF n = 0 THEN {<<>>}
    ELSE LET shorter == SeqsUpTo(S, n - 1)
         IN  shorter \cup {Append(s, x) : s \in {t \in shorter : Len(t) = n - 1}, x \in S}

\* The wrapper {[IPROTO_DATA] = {...}} in front of a buffer's records.
\* count is the number of elements the array header declares. cut is the
\* number of units of the wrapper that lie below the write position; of a
\* wrapper cut short, the other fields tell what the memory behind the
\* write position happens to hold.
GoodHeader == [outer |-> "map", size |-> 1, keytype |-> "uint",
               key |-> IPROTO_DATA, val |-> "array", count |-> 0, cut |-> HeaderLen]
NoHeader == [outer |-> "none", size |-> 0, keytype |-> "none",
             key |-> 0, val |-> "none", count |-> 0, cut |-> 0]
\* The counts an array header declares: none, and the most a buffer holds.
DeclaredCounts == {0, MaxLen}
BadHeaders ==
    { [GoodHeader EXCEPT !.outer = "array"],
      [GoodHeader EXCEPT !.size = 2],
      [GoodHeader EXCEPT !.keytype = "str"],
      [GoodHeader EXCEPT !.key = IPROTO_DATA + 1],
      [GoodHeader EXCEPT !.val = "uint"] }

\* A buffer that holds the map header and nothing else; behind it the
\* memory holds the rest of a wrapper, or no unsigned key, or another key.
TruncatedHeaders ==
    { [GoodHeader EXCEPT !.cut = 1],
      [GoodHeader EXCEPT !.cut = 1, !.keytype = "str"],
      [GoodHeader EXCEPT !.cut = 1, !.key = IPROTO_DATA + 1] }

\* The elements of the Lua table passed to start: a function, an ibuf with
\* nothing in it, an ibuf with a well-formed wrapper, an ibuf with a
\* malformed one, an ibuf with a wrapper cut short.
FunctionInput == [kind |-> "function", hdr |-> NoHeader, recs |-> <<>>]
EmptyBuffer == [kind |-> "buffer", hdr |-> NoHeader, recs |-> <<>>]
NilElement == [kind |-> "nil", hdr |-> NoHeader, recs |-> <<>>]
\* An element that is no function and for which lua_topointer gives NULL
\* (a number, a boolean).
NumberElement == [kind |-> "number", hdr |-> NoHeader, recs |-> <<>>]
Producers ==
    {FunctionInput, EmptyBuffer}
    \cup {[kind |-> "buffer", hdr |-> [GoodHeader EXCEPT !.count = c], recs |-> r] :
               r \in SeqsUpTo(Keys, MaxLen), c \in DeclaredCounts}
    \cup {[kind |-> "buffer", hdr |-> h, recs |-> <<1>>] : h \in BadHeaders}
    \cup {[kind |-> "buffer", hdr |-> h, recs |-> <<>>] : h \in TruncatedHeaders}

\* ibuf: wpos - buf start, in units (rpos is the variable rpos[i]).
wpos(p) == IF p.hdr = NoHeader THEN 0 ELSE p.hdr.cut + Len(p.recs)
\* The buffer ends inside its wrapper.
Truncated(p) == p.kind = "buffer" /\ p.hdr # NoHeader /\ p.hdr.cut < HeaderLen
ibuf_used(p, r) == wpos(p) - r

VARIABLES
    pc,         \* "new" (no merger yet) | "failed" (new raised) | "idle" |
                \* "start" (start is at the head of its loop) | "iter" (start
                \* has read a table element) | "crashed" | "destroyed"
    merger,     \* struct merger: heap, count, capacity, sources, order; arr is
                \* the state of the pointer merger->sources
    inputs,     \* the Lua table given to the last start, as far as start has read it
    elem,       \* the table element lua_gettable left on the Lua stack
    rpos,       \* rpos[i]: read position of the buffer inputs[i]
    produced,   \* produced[i]: keys inputs[i] has handed to source_fetch so far
    registry,   \* live references in LUA_REGISTRYINDEX made by luaL_ref
    held,       \* tuples on which the merger holds a box_tuple_ref
    output,     \* tuples returned by next since the last start
    op, res, val,   \* the last operation, its result, the integer it returned
    startOk,    \* the last start returned true
    eosSeen,    \* next has returned nil since the last start
    nstarts,    \* start calls so far
    leaked,     \* struct source allocations no pointer of the merger reaches
    doubleFree, \* free() was called on an already freed merger->sources
    allocs,     \* allocations of lbox_merger_new not yet released
    emitRefs,   \* reference counts of the head during the last emission of next
    polls,      \* polls[i]: fetches made on inputs[i] since the last start
    drained,    \* inputs on which a fetch has found nothing more since the last start
    direction   \* the direction given to the last start

vars == <<pc, merger, inputs, elem, rpos, produced, polls, drained, registry, held,
          output, emitRefs, op, res, val, startOk, eosSeen, nstarts, direction, allocs, leaked,
          doubleFree>>

\* ------------------------------------------------------------- comparator
\* box_tuple_compare under a one-part integer key definition.
box_tuple_compare(a, b) ==
    IF a.key < b.key THEN -1 ELSE IF a.key > b.key THEN 1 ELSE 0

box_tuple_compare_with_key(a, k) ==
    IF a.key < k THEN -1 ELSE IF a.key > k THEN 1 ELSE 0

source_less_flipped(srcs, order, a, b) ==
    LET left == srcs[a]
        right == srcs[b]
    IN  IF left.tuple = NoTuple /\ right.tuple = NoTuple THEN FALSE
        ELSE IF left.tuple = NoTuple THEN FALSE
        ELSE IF right.tuple = NoTuple THEN TRUE
        ELSE order * box_tuple_compare(left.tuple, right.tuple) > 0

source_less_unordered(srcs, order, a, b) ==
    LET left == srcs[a]
        right == srcs[b]
    IN  IF left.tuple = NoTuple /\ right.tuple = NoTuple THEN FALSE
        ELSE IF left.tuple = NoTuple THEN FALSE
        ELSE IF right.tuple = NoTuple THEN TRUE
        ELSE box_tuple_compare(left.tuple, right.tuple) < 0

\* source_less: a, b are heap nodes, given as the slots of their cursors.
source_less(srcs, order, a, b) ==
    LET left == srcs[a]
        right == srcs[b]
    IN  IF left.tuple = NoTuple /\ right.tuple = NoTuple THEN FALSE
        ELSE IF left.tuple = NoTuple THEN FALSE
        ELSE IF right.tuple = NoTuple THEN TRUE
        ELSE order * box_tuple_compare(left.tuple, right.tuple) < 0

\* ------------------------------------------------------------------- heap
\* salad/heap.h: a binary heap held in an array of nodes, here 1-based.
Swap(h, i, j) == [h EXCEPT ![i] = h[j], ![j] = h[i]]

RECURSIVE sift_up(_, _, _, _)
sift_up(h, pos, srcs, order) ==
    IF pos > 1 /\ source_less(srcs, order, h[pos], h[pos \div 2])
    THEN sift_up(Swap(h, pos, pos \div 2), pos \div 2, srcs, order)
    ELSE h

RECURSIVE sift_down(_, _, _, _)
sift_down(h, pos, srcs, order) ==
    LET l == 2 * pos
        r == 2 * pos + 1
        m == IF r <= Len(h) /\ source_less(srcs, order, h[r], h[l]) THEN r ELSE l
    IN  IF l <= Len(h) /\ source_less(srcs, order, h[m], h[pos])
        THEN sift_down(Swap(h, pos, m), m, srcs, order)
        ELSE h

HeapPos(h, node) == CHOOSE p \in 1..Len(h) : h[p] = node

update_node(h, pos, srcs, order) ==
    LET node == h[pos]
        up == sift_up(h, pos, srcs, order)
    IN  sift_down(up, HeapPos(up, node), srcs, order)

merger_heap_insert(h, node, srcs, order) ==
    sift_up(Append(h, node), Len(h) + 1, srcs, order)

merger_heap_delete(h, node, srcs, order) ==
    LET pos == HeapPos(h, node)
        last == Len(h)
        moved == SubSeq([h EXCEPT ![pos] = h[last]], 1, last - 1)
    IN  IF pos = last THEN SubSeq(h, 1, last - 1)
        ELSE update_node(moved, pos, srcs, order)

merger_heap_update(h, node, srcs, order) ==
    update_node(h, HeapPos(h, node), srcs, order)

\* merger_heap_top: 0 stands for NULL.
merger_heap_top(h) == IF Len(h) = 0 THEN 0 ELSE h[1]

\* ----------------------------------------------------------- source_fetch
NilReturn == [kind |-> "nil", key |-> 0]
\* What the callable of inputs[i] may hand back on one call.
Returns(i) ==
    {NilReturn, [kind |-> "nontuple", key |-> 0], [kind |-> "error", key |-> 0]}
    \cup (IF Len(produced[i]) < MaxLen
          THEN {[kind |-> "tuple", key |-> k] : k \in Keys} ELSE {})

\* What box_tuple_new hands back for a record: a tuple, or NULL when it has
\* no memory or the record does not fit the format.
Builds == {[kind |-> "built", key |-> 0], [kind |-> "null", key |-> 0]}

\* What box_tuple_new hands back when the record is read behind the write
\* position of inputs[i]: NULL, or a tuple made of what the memory holds.
StaleBuilds(i) ==
    {[kind |-> "null", key |-> 0]}
    \cup (IF Len(produced[i]) < MaxLen
          THEN {[kind |-> "built", key |-> k] : k \in Keys} ELSE {})

\* The values lua_call can leave for the cursor `source`, or, for a buffer
\* cursor, which calls nothing, the outcomes of box_tuple_new.
FetchReturns(source) ==
    IF source.source_type = "function" THEN Returns(source.input)
    ELSE IF Truncated(inputs[source.input]) THEN StaleBuilds(source.input)
    ELSE Builds

\* Lines 124-135: the callable is called; it handed back ret.
fetch_function(source, ret) ==
    LET i == source.input
        fresh(k) == [src |-> i, n |-> Len(produced[i]) + 1, key |-> k]
    IN  CASE ret.kind = "nil" ->
               [tuple |-> NoTuple, raised |-> "none", moved |-> FALSE, at146 |-> FALSE]
          [] ret.kind = "tuple" ->
               [tuple |-> fresh(ret.key), raised |-> "none", moved |-> FALSE, at146 |-> TRUE]
          [] ret.kind = "nontuple" ->
               [tuple |-> NoTuple, raised |-> "TupleExpected", moved |-> FALSE, at146 |-> FALSE]
          [] OTHER ->
               [tuple |-> NoTuple, raised |-> "ProducerFault", moved |-> FALSE, at146 |-> FALSE]

fetch_buffer_backwards(source, ret, rp) ==
    LET i == source.input
        fresh(k) == [src |-> i, n |-> Len(produced[i]) + 1, key |-> k]
    IN  IF ibuf_used(inputs[i], rp[i]) = 0
        THEN [tuple |-> NoTuple, raised |-> "none", moved |-> FALSE, at146 |-> FALSE]
        ELSE IF ret.kind = "null"
        THEN [tuple |-> NoTuple, raised |-> "TupleNotBuilt", moved |-> TRUE, at146 |-> FALSE]
        ELSE IF rp[i] >= wpos(inputs[i])
        THEN [tuple |-> fresh(ret.key), raised |-> "none", moved |-> TRUE, at146 |-> TRUE]
        ELSE [tuple |-> fresh(inputs[i].recs[Len(inputs[i].recs) - (rp[i] - HeaderLen)]),
              raised |-> "none", moved |-> TRUE, at146 |-> TRUE]

\* Lines 136-146: one record is cut off the buffer at rpos, rp being the
\* read positions at the call, and ret what box_tuple_new hands back. With
\* NULL, box_tuple_ref at line 146 writes through the null pointer and the
\* process is killed: "TupleNotBuilt" names that end, no reference is taken.
\* Nothing compares rpos with wpos but the test for equality at line 137: a
\* read position beyond the write position reads on in the memory behind.
fetch_buffer(source, ret, rp) ==
    LET i == source.input
        fresh(k) == [src |-> i, n |-> Len(produced[i]) + 1, key |-> k]
    IN  IF ibuf_used(inputs[i], rp[i]) = 0
        THEN [tuple |-> NoTuple, raised |-> "none", moved |-> FALSE, at146 |-> FALSE]
        ELSE IF ret.kind = "null"
        THEN [tuple |-> NoTuple, raised |-> "TupleNotBuilt", moved |-> TRUE, at146 |-> FALSE]
        ELSE IF rp[i] >= wpos(inputs[i])
        THEN [tuple |-> fresh(ret.key), raised |-> "none", moved |-> TRUE, at146 |-> TRUE]
        ELSE [tuple |-> fresh(inputs[i].recs[rp[i] - HeaderLen + 1]),
              raised |-> "none", moved |-> TRUE, at146 |-> TRUE]

source_fetch_noref(source, ret, rp) ==
    LET f == IF source.source_type = "function"
             THEN fetch_function(source, ret) ELSE fetch_buffer(source, ret, rp)
    IN  [tuple |-> f.tuple, raised |-> f.raised, moved |-> f.moved, ref |-> FALSE]

source_fetch_keeps_head(source, ret, rp) ==
    LET f == IF source.source_type = "function"
             THEN fetch_function(source, ret) ELSE fetch_buffer(source, ret, rp)
    IN  [tuple |-> IF f.tuple = NoTuple /\ f.raised = "none" THEN source.tuple ELSE f.tuple,
         raised |-> f.raised, moved |-> f.moved, ref |-> f.at146]

\* source_fetch: the new head, the Lua error raised (if any), whether the
\* buffer's read position moved, and whether line 146 took a reference.
source_fetch(source, ret, rp) ==
    LET f == IF source.source_type = "function"
             THEN fetch_function(source, ret) ELSE fetch_buffer(source, ret, rp)
    IN  [tuple |-> f.tuple, raised |-> f.raised, moved |-> f.moved, ref |-> f.at146]

\* Lines 127-130 and 137-138: the fetch finds that the producer has nothing
\* more: the callable returned nil, the buffer is used up.
ObservesEnd(source, ret, rp) ==
    IF source.source_type = "function" THEN ret.kind = "nil"
    ELSE ibuf_used(inputs[source.input], rp[source.input]) = 0
DrainedAfter(source, ret, rp) ==
    IF ObservesEnd(source, ret, rp) THEN drained \cup {source.input} ELSE drained

\* The host state after the fetch f on input i.
RposAfter(rp, i, f) == IF f.moved THEN [rp EXCEPT ![i] = @ + 1] ELSE rp
ProducedAfter(i, f) ==
    IF f.tuple # NoTuple THEN [produced EXCEPT ![i] = Append(@, f.tuple.key)] ELSE produced
HeldAfter(h, f) == IF f.ref THEN h \cup {f.tuple} ELSE h

\* ----------------------------------------------------------- free_sources
\* The registry references and the tuple references free_sources releases.
FunctionRefs(m) ==
    {m.sources[i].next_ref : i \in {j \in 1..m.count : m.sources[j].source_type = "function"}}
HeadTuples_first(m) ==
    {m.sources[i].tuple : i \in {j \in 1..m.count : j = 1 /\ m.sources[j].tuple # NoTuple}}

HeadTuples(m) ==
    {m.sources[i].tuple : i \in {j \in 1..m.count : m.sources[j].tuple # NoTuple}}

\* Lines 150-158: the calls of box_tuple_unref the loop of free_sources
\* makes, in the order of the array, from slot i on.
RECURSIVE Unrefs(_, _)
Unrefs(m, i) ==
    IF i > m.count THEN <<>>
    ELSE (IF m.sources[i].tuple # NoTuple THEN <<m.sources[i].tuple>> ELSE <<>>)
         \o Unrefs(m, i + 1)

\* free_sources: every cursor below count is freed, the array is freed and
\* the pointer kept, the heap is destroyed and created again.
free_sources(m) ==
    [m EXCEPT !.count = 0,
              !.sources = <<>>,
              !.arr = IF m.arr = "live" THEN "freed" ELSE m.arr,
              !.capacity = 0,
              !.heap = <<>>]

\* free(merger->sources) on a pointer that was freed before: the allocator
\* aborts the process or lets it pass.
FreeOutcomes(m) == IF m.arr = "freed" THEN {"abort", "pass"} ELSE {"pass"}

\* ------------------------------------------------------------------- Init
\* No merger has been constructed; merger stands for the zeroed structure
\* calloc will return.
Init ==
    /\ pc = "new"
    /\ merger = [heap |-> <<>>, count |-> 0, capacity |-> 0, sources |-> <<>>,
                 order |-> 0, arr |-> "null"]
    /\ inputs = <<>>
    /\ elem = NilElement
    /\ rpos = <<>>
    /\ produced = <<>>
    /\ polls = <<>>
    /\ drained = {}
    /\ registry = {}
    /\ held = {}
    /\ output = <<>>
    /\ emitRefs = <<>>
    /\ op = "none"
    /\ res = "none"
    /\ val = 0
    /\ startOk = FALSE
    /\ eosSeen = FALSE
    /\ nstarts = 0
    /\ direction = 0
    /\ leaked = 0
    /\ doubleFree = FALSE
    /\ allocs = {}

\* -------------------------------------------------------- lbox_merger_new
\* The entries of the table given to new: a well-formed part, one without
\* fieldno, one without type, one whose type field_type_by_name rejects.
PartKinds == {"part", "nofieldno", "notype", "unknowntype"}
KeyPartTables == SeqsUpTo(PartKinds, MaxParts)

\* The allocation that fails in this call, if any.
NewFaults == {"none", "parts", "merger", "key_def", "format"}

\* Lines 324-386: the loop over the table; the first entry it rejects, with
\* the error it raises, or "part" if it reaches the nil behind the table.
RECURSIVE ReadParts(_, _)
ReadParts(table, count) ==
    IF count + 1 > Len(table) THEN "part"
    ELSE IF table[count + 1] # "part" THEN table[count + 1]
    ELSE ReadParts(table, count + 1)

\* lbox_merger_new as a value: the result and the allocations it has made
\* and not released when it returns or raises.
merger_new(table, fault) ==
    LET read == ReadParts(table, 0)
        parts == {"parts"}
        merger_ == parts \cup {"merger"}
    IN  IF fault = "parts"                          \* 320-322
        THEN [res |-> "OutOfMemory", live |-> {}]
        ELSE IF read # "part"                       \* 348-350, 360-362, 368-371
        THEN [res |-> read, live |-> parts \ {"parts"}]
        ELSE IF fault = "merger"                    \* 389-392
        THEN [res |-> "OutOfMemory", live |-> parts \ {"parts"}]
        ELSE IF fault = "key_def"                   \* 394-397
        THEN [res |-> "CannotCreateKeyDef", live |-> merger_ \ {"parts"}]
        ELSE IF fault = "format"                    \* 399-405
        THEN [res |-> "CannotCreateFormat",
              live |-> (((merger_ \cup {"key_def"}) \ {"parts"}) \ {"key_def"}) \ {"merger"}]
        ELSE [res |-> "ok",                         \* 399-413
              live |-> ((merger_ \cup {"key_def"}) \ {"parts"}) \cup {"format"}]

lbox_merger_new ==
    /\ pc = "new"
    /\ \E table \in KeyPartTables, fault \in NewFaults :
         LET new == merger_new(table, fault)
         IN  /\ pc' = IF new.res = "ok" THEN "idle" ELSE "failed"
             /\ res' = new.res
             /\ allocs' = new.live
    /\ op' = "new"
    /\ UNCHANGED <<merger, inputs, elem, rpos, produced, polls, drained, registry, held,
                   output, emitRefs, val, startOk, eosSeen, nstarts, direction, leaked, doubleFree>>

\* ------------------------------------------------------ lbox_merger_start
OrderOf_zero_descending(dir) == IF dir > 0 THEN 1 ELSE -1

\* Line 188: lua_tointeger(L, 3) >= 0 ? 1 : -1.
OrderOf(dir) == IF dir >= 0 THEN 1 ELSE -1

\* Lines 183-195: the order, free_sources, the first malloc of the array.
lbox_merger_start(dir) ==
    /\ pc = "idle"
    /\ nstarts < MaxStarts
    /\ \E outcome \in FreeOutcomes(merger), alloc \in BOOLEAN :
         LET m1 == [merger EXCEPT !.order = OrderOf(dir)]
             m2 == free_sources(m1)
             m3 == [m2 EXCEPT !.capacity = InitialCapacity,
                              !.arr = IF alloc THEN "live" ELSE "null"]
         IN  /\ registry' = registry \ FunctionRefs(merger)
             /\ held' = held \ HeadTuples(merger)
             /\ doubleFree' = (doubleFree \/ merger.arr = "freed")
             /\ IF outcome = "abort"
                THEN /\ pc' = "crashed"
                     /\ merger' = m2
                     /\ res' = "abort"
                ELSE /\ merger' = m3
                     /\ pc' = IF alloc THEN "start" ELSE "idle"
                     /\ res' = IF alloc THEN "running" ELSE "OutOfMemory"
    /\ inputs' = <<>>
    /\ elem' = NilElement
    /\ rpos' = <<>>
    /\ produced' = <<>>
    /\ polls' = <<>>
    /\ drained' = {}
    /\ output' = <<>>
    /\ emitRefs' = <<>>
    /\ op' = "start"
    /\ val' = 0
    /\ startOk' = FALSE
    /\ eosSeen' = FALSE
    /\ nstarts' = nstarts + 1
    /\ direction' = dir
    /\ UNCHANGED <<leaked, allocs>>

\* The index lua_gettable reads in this iteration (line 198).
StartIndex == merger.count + 1

\* What the table holds at index i: what start read there before, or, at an
\* index it reads for the first time, any producer or nothing.
TableAt(i) ==
    IF i <= Len(inputs) THEN {inputs[i]}
    ELSE {NilElement, NumberElement}
         \cup (IF Len(inputs) < MaxSources THEN Producers ELSE {})

\* Lines 198-199: push the index, replace it by the table's element.
StartRead ==
    /\ pc = "start"
    /\ \E p \in TableAt(StartIndex) :
         /\ elem' = p
         /\ IF StartIndex <= Len(inputs) \/ p \in {NilElement, NumberElement}
            THEN UNCHANGED <<inputs, rpos, produced, polls, drained>>
            ELSE /\ inputs' = Append(inputs, p)
                 /\ rpos' = Append(rpos, 0)
                 /\ produced' = Append(produced, <<>>)
                 /\ polls' = Append(polls, 0)
                 /\ drained' = drained
    /\ pc' = "iter"
    /\ UNCHANGED <<merger, registry, held, output, emitRefs, op, res, val, startOk, eosSeen,
                   nstarts, direction, allocs, leaked, doubleFree>>

\* A start that leaves with a Lua error, or returns, or is killed.
StartLeaves(result) ==
    /\ pc' = IF result = "TupleNotBuilt" THEN "crashed" ELSE "idle"
    /\ res' = result
    /\ startOk' = (result = "ok")
    /\ elem' = NilElement
    /\ UNCHANGED <<op, val, eosSeen, nstarts, direction, allocs, output, emitRefs>>

\* Lines 200-201 and 210-212: the table has no element at the index, or one
\* that is no function and no pointer; start returns true.
StartBreak ==
    /\ pc = "iter"
    /\ elem \in {NilElement, NumberElement}
    /\ StartLeaves("ok")
    /\ UNCHANGED <<merger, inputs, rpos, produced, polls, drained, registry, held,
                   leaked, doubleFree>>

\* Lines 213-214: a buffer with nothing in it; `continue` goes back to the
\* head of the loop with count as it was.
StartEmptyBuffer ==
    /\ pc = "iter"
    /\ elem.kind = "buffer"
    /\ ibuf_used(elem, rpos[StartIndex]) = 0
    /\ pc' = "start"
    /\ elem' = NilElement
    /\ UNCHANGED <<merger, inputs, rpos, produced, polls, drained, registry, held,
                   output, emitRefs, op, res, val, startOk, eosSeen, nstarts, direction, allocs,
                   leaked, doubleFree>>

\* The producer this iteration makes a cursor for.
StartHasProducer ==
    /\ pc = "iter"
    /\ \/ elem.kind = "function"
       \/ elem.kind = "buffer" /\ ibuf_used(elem, rpos[StartIndex]) # 0

\* Lines 217-238: realloc of the array or malloc of the cursor fails.
StartAllocFails ==
    /\ StartHasProducer
    /\ \E site \in {"realloc", "malloc"} :
         site = "realloc" => merger.count = merger.capacity
    /\ merger' = free_sources(merger)
    /\ registry' = registry \ FunctionRefs(merger)
    /\ held' = held \ HeadTuples(merger)
    /\ StartLeaves("OutOfMemory")
    /\ UNCHANGED <<inputs, rpos, produced, polls, drained, leaked, doubleFree>>

\* Lines 217-230: the array after the capacity check.
Grown(m) == IF m.count = m.capacity THEN [m EXCEPT !.capacity = 2 * @] ELSE m

HeaderDecode_anykey(h) ==
    IF h.outer # "map" THEN [ok |-> FALSE, adv |-> 0]
    ELSE IF h.size # 1 THEN [ok |-> FALSE, adv |-> 1]
    ELSE IF h.keytype # "uint" THEN [ok |-> FALSE, adv |-> 1]
    ELSE IF h.val # "array" THEN [ok |-> FALSE, adv |-> 2]
    ELSE [ok |-> TRUE, adv |-> HeaderLen]

\* Lines 248-257: the header checks, left to right, each decode moving rpos;
\* the value of mp_decode_array, the declared count, is dropped.
HeaderDecode(h) ==
    IF h.outer # "map" THEN [ok |-> FALSE, adv |-> 0]
    ELSE IF h.size # 1 THEN [ok |-> FALSE, adv |-> 1]
    ELSE IF h.keytype # "uint" THEN [ok |-> FALSE, adv |-> 1]
    ELSE IF h.key # IPROTO_DATA THEN [ok |-> FALSE, adv |-> 2]
    ELSE IF h.val # "array" THEN [ok |-> FALSE, adv |-> 2]
    ELSE [ok |-> TRUE, adv |-> HeaderLen]

\* Lines 246-255: the wrapper is malformed; the cursor just allocated is in
\* sources[count], which free_sources does not reach.
StartInvalidHeader ==
    /\ StartHasProducer
    /\ elem.kind = "buffer"
    /\ ~HeaderDecode(elem.hdr).ok
    /\ rpos' = [rpos EXCEPT ![StartIndex] = @ + HeaderDecode(elem.hdr).adv]
    /\ merger' = free_sources(Grown(merger))
    /\ registry' = registry \ FunctionRefs(merger)
    /\ held' = held \ HeadTuples(merger)
    /\ leaked' = leaked + 1
    /\ StartLeaves("InvalidHeader")
    /\ UNCHANGED <<inputs, produced, polls, drained, doubleFree>>

\* luaL_ref: a reference not in use.
luaL_ref(reg) == CHOOSE n \in 1..(Cardinality(reg) + 1) : n \notin reg

\* Lines 231-275: the cursor is allocated, attached to its producer, fetched
\* once and counted.
StartFetch ==
    /\ StartHasProducer
    /\ LET i == StartIndex
           p == elem
           isfn == p.kind = "function"
           next == IF isfn THEN luaL_ref(registry) ELSE 0
           source == [source_type |-> p.kind, input |-> i, next_ref |-> next,
                      tuple |-> NoTuple]
           rp == IF isfn THEN rpos ELSE [rpos EXCEPT ![i] = @ + HeaderLen]
           m == Grown(merger)
       IN  /\ isfn \/ HeaderDecode(p.hdr).ok
           /\ registry' = IF isfn THEN registry \cup {next} ELSE registry
           /\ \E ret \in FetchReturns(source) :
                LET f == source_fetch(source, ret, rp)
                    srcs == Append(m.sources, [source EXCEPT !.tuple = f.tuple])
                IN  /\ rpos' = RposAfter(rp, i, f)
                    /\ produced' = ProducedAfter(i, f)
                    /\ polls' = [polls EXCEPT ![i] = @ + 1]
                    /\ drained' = DrainedAfter(source, ret, rp)
                    /\ held' = HeldAfter(held, f)
                    /\ IF f.raised # "none"
                       THEN /\ merger' = m
                            /\ leaked' = leaked + 1
                            /\ StartLeaves(f.raised)
                       ELSE /\ merger' =
                                 [m EXCEPT !.sources = srcs,
                                           !.count = @ + 1,
                                           !.heap = IF f.tuple # NoTuple
                                                    THEN merger_heap_insert(@, m.count + 1,
                                                                            srcs, m.order)
                                                    ELSE @]
                            /\ pc' = "start"
                            /\ elem' = NilElement
                            /\ UNCHANGED <<op, res, val, startOk, eosSeen,
                                           nstarts, direction, allocs, output, emitRefs, leaked>>
    /\ UNCHANGED <<inputs, doubleFree>>

\* ------------------------------------------------------- lbox_merger_next
\* box/lua/tuple.c, box/tuple.h: the Lua value luaT_pushtuple makes holds a
\* reference of its own; box_tuple_unref gives one up.
luaT_pushtuple(refs) == refs + 1
box_tuple_unref(refs) == refs - 1

EmitRefs_unref_first(refs) ==
    LET dropped == box_tuple_unref(refs)
    IN  <<refs, dropped, luaT_pushtuple(dropped)>>

\* Lines 292-293: the reference count of the head, which the cursor holds
\* refs times, before line 292, after it and after line 293.
EmitRefs(refs) ==
    LET pushed == luaT_pushtuple(refs)
    IN  <<refs, pushed, box_tuple_unref(pushed)>>

NextEndOfStream_cleanup ==
    /\ \E outcome \in FreeOutcomes(merger) :
         /\ pc' = IF outcome = "abort" THEN "crashed" ELSE pc
         /\ res' = IF outcome = "abort" THEN "abort" ELSE "nil"
    /\ eosSeen' = TRUE
    /\ merger' = free_sources(merger)
    /\ registry' = registry \ FunctionRefs(merger)
    /\ held' = held \ HeadTuples(merger)
    /\ doubleFree' = (doubleFree \/ merger.arr = "freed")
    /\ UNCHANGED <<rpos, produced, polls, drained, output, emitRefs>>

\* Lines 287-290: the heap is empty, nil is returned.
NextEndOfStream ==
    /\ res' = "nil"
    /\ eosSeen' = TRUE
    /\ UNCHANGED <<pc, merger, rpos, produced, polls, drained, registry, held, output,
                   emitRefs, doubleFree>>

NextHeap_always_delete(h, hnode, srcs, order) ==
    merger_heap_delete(h, hnode, srcs, order)

NextHeap_clears(h, hnode, srcs, order) ==
    IF srcs[hnode].tuple = NoTuple
    THEN <<>>
    ELSE merger_heap_update(h, hnode, srcs, order)

\* Lines 302-305: a drained cursor leaves the heap, another is put in place.
NextHeap(h, hnode, srcs, order) ==
    IF srcs[hnode].tuple = NoTuple
    THEN merger_heap_delete(h, hnode, srcs, order)
    ELSE merger_heap_update(h, hnode, srcs, order)

lbox_merger_next ==
    /\ pc = "idle"
    /\ op' = "next"
    /\ LET hnode == merger_heap_top(merger.heap)
       IN  IF hnode = 0
           THEN NextEndOfStream
           ELSE LET source == merger.sources[hnode]
                IN  IF source.tuple = NoTuple
                    THEN \* luaT_pushtuple on a NULL head
                         /\ pc' = "crashed"
                         /\ res' = "abort"
                         /\ UNCHANGED <<merger, rpos, produced, polls, drained, registry, held,
                                        output, emitRefs, eosSeen, doubleFree>>
                    ELSE \E ret \in FetchReturns(source) :
                           LET f == source_fetch(source, ret, rpos)
                               srcs == [merger.sources EXCEPT ![hnode].tuple = f.tuple]
                           IN  /\ rpos' = RposAfter(rpos, source.input, f)
                               /\ produced' = ProducedAfter(source.input, f)
                               /\ polls' = [polls EXCEPT ![source.input] = @ + 1]
                               /\ drained' = DrainedAfter(source, ret, rpos)
                               /\ held' = HeldAfter(held \ {source.tuple}, f)
                               /\ emitRefs' = EmitRefs(IF source.tuple \in held
                                                       THEN 1 ELSE 0)
                               /\ IF f.raised # "none"
                                  THEN /\ merger' = [merger EXCEPT !.sources = srcs]
                                       /\ res' = f.raised
                                       /\ output' = output
                                  ELSE /\ merger' =
                                            [merger EXCEPT
                                               !.sources = srcs,
                                               !.heap = NextHeap(@, hnode, srcs,
                                                                 merger.order)]
                                       /\ res' = "tuple"
                                       /\ output' = Append(output, source.tuple)
                               /\ pc' = IF f.raised = "TupleNotBuilt" THEN "crashed" ELSE pc
                               /\ UNCHANGED <<registry, eosSeen, doubleFree>>
    /\ val' = 0
    /\ UNCHANGED <<inputs, elem, startOk, nstarts, direction, allocs, leaked>>

\* -------------------------------------------------------- lbox_merger_cmp
lbox_merger_cmp(key) ==
    /\ pc = "idle"
    /\ op' = "cmp"
    /\ LET hnode == merger_heap_top(merger.heap)
       IN  IF hnode = 0
           THEN /\ res' = "nil"
                /\ val' = 0
                /\ pc' = pc
           ELSE IF merger.sources[hnode].tuple = NoTuple
           THEN \* box_tuple_compare_with_key on a NULL head
                /\ pc' = "crashed"
                /\ res' = "abort"
                /\ val' = 0
           ELSE /\ res' = "integer"
                /\ val' = box_tuple_compare_with_key(merger.sources[hnode].tuple, key)
                          * merger.order
                /\ pc' = pc
    /\ UNCHANGED <<merger, inputs, elem, rpos, produced, polls, drained, registry, held,
                   output, emitRefs, startOk, eosSeen, nstarts, direction, allocs, leaked,
                   doubleFree>>

\* --------------------------------------------------------- lbox_merger_gc
lbox_merger_gc ==
    /\ pc = "idle"
    /\ \E outcome \in FreeOutcomes(merger) :
         /\ pc' = IF outcome = "abort" THEN "crashed" ELSE "destroyed"
         /\ res' = IF outcome = "abort" THEN "abort" ELSE "ok"
    /\ merger' = free_sources(merger)
    /\ registry' = registry \ FunctionRefs(merger)
    /\ held' = held \ HeadTuples(merger)
    /\ doubleFree' = (doubleFree \/ merger.arr = "freed")
    /\ allocs' = IF pc' = "crashed" THEN allocs ELSE {}
    /\ op' = "gc"
    /\ val' = 0
    /\ UNCHANGED <<inputs, elem, rpos, produced, polls, drained, output, emitRefs,
                   startOk, eosSeen, nstarts, direction, leaked>>

\* ------------------------------------------------------------- bad params
\* The calls the checks of the arguments turn down (lines 184-187, 284-285,
\* 420-422): the operation called, and what is wrong with the call.
BadCalls ==
    ({"start", "next", "cmp"} \X {"argcount", "nomerger"})
    \cup ({"start"} \X {"notable", "nonumber"})

\* The error each operation raises.
BadParamsError(call) ==
    CASE call[1] = "start" -> "BadParamsStart"
      [] call[1] = "next" -> "BadParamsNext"
      [] OTHER -> "BadParamsCmp"

BadParams_after_free ==
    /\ pc = "idle"
    /\ \E call \in BadCalls :
         /\ res' = BadParamsError(call)
         /\ merger' = IF call[1] = "start" THEN free_sources(merger) ELSE merger
    /\ op' = "rejected"
    /\ val' = 0
    /\ UNCHANGED <<pc, inputs, elem, rpos, produced, polls, drained, registry,
                   held, output, emitRefs, startOk, eosSeen, nstarts, direction,
                   allocs, leaked, doubleFree>>

\* The check is the first statement of start, next and cmp: luaL_error
\* leaves the operation before it has read or written the merger.
BadParams ==
    /\ pc = "idle"
    /\ \E call \in BadCalls : res' = BadParamsError(call)
    /\ op' = "rejected"
    /\ val' = 0
    /\ UNCHANGED <<pc, merger, inputs, elem, rpos, produced, polls, drained, registry,
                   held, output, emitRefs, startOk, eosSeen, nstarts, direction,
                   allocs, leaked, doubleFree>>

\* ------------------------------------------------------------------- Next
Directions == {-1, 0, 1}

Next ==
    \/ lbox_merger_new
    \/ \E dir \in Directions : lbox_merger_start(dir)
    \/ StartRead
    \/ StartBreak
    \/ StartEmptyBuffer
    \/ StartAllocFails
    \/ StartInvalidHeader
    \/ StartFetch
    \/ lbox_merger_next
    \/ \E key \in Keys : lbox_merger_cmp(key)
    \/ lbox_merger_gc
    \/ BadParams

Spec == Init /\ [][Next]_vars

\* ------------------------------------------------------- what is observed
Range(f) == {f[i] : i \in DOMAIN f}

\* The keys the source inputs[i] supplies: a buffer's records, the tuples a
\* callable has returned.
SourceSeq(i) ==
    IF inputs[i].kind = "buffer" /\ ~Truncated(inputs[i]) THEN inputs[i].recs
    ELSE produced[i]

\* Every tuple the sources supply.
Supplied ==
    {[src |-> i, n |-> k, key |-> SourceSeq(i)[k]] :
        <<i, k>> \in {ik \in (1..Len(inputs)) \X (1..MaxLen + 1) : ik[2] <= Len(SourceSeq(ik[1]))}}

\* A sequence of keys in the order of a run of the given direction.
SortedKeys(ks, order) ==
    \A i, j \in 1..Len(ks) : i < j =>
        order * (IF ks[i] < ks[j] THEN -1 ELSE IF ks[i] > ks[j] THEN 1 ELSE 0) <= 0

OutputKeys == [i \in 1..Len(output) |-> output[i].key]

AllSourcesSorted == \A i \in 1..Len(inputs) : SortedKeys(SourceSeq(i), merger.order)

\* The cursors of the array whose head is not none.
LiveCursors == {j \in 1..merger.count : merger.sources[j].tuple # NoTuple}

\* ------------------------------------------------- a whole run, as a value
\* The run of start and next over sources that supply the key sequences
\* seqs, none failing: the cursor of source i before its n-th key.
MergeCursor(seqs, i, n) ==
    [source_type |-> "buffer", input |-> i, next_ref |-> 0,
     tuple |-> IF n <= Len(seqs[i]) THEN [src |-> i, n |-> n, key |-> seqs[i][n]]
               ELSE NoTuple]

\* Lines 259-274, once for each source: fetch, insert if there is a head.
RECURSIVE MergeStart(_, _, _, _)
MergeStart(seqs, order, srcs, heap) ==
    IF Len(srcs) = Len(seqs) THEN [sources |-> srcs, heap |-> heap]
    ELSE LET i == Len(srcs) + 1
             grown == Append(srcs, MergeCursor(seqs, i, 1))
         IN  MergeStart(seqs, order, grown,
                        IF grown[i].tuple # NoTuple
                        THEN merger_heap_insert(heap, i, grown, order) ELSE heap)

\* Lines 286-305, until the heap is empty: the keys next returns.
RECURSIVE MergeNext(_, _, _, _)
MergeNext(seqs, order, srcs, heap) ==
    LET hnode == merger_heap_top(heap)
    IN  IF hnode = 0 THEN <<>>
        ELSE LET t == srcs[hnode].tuple
                 fetched == [srcs EXCEPT ![hnode] = MergeCursor(seqs, hnode, t.n + 1)]
             IN  <<t.key>> \o MergeNext(seqs, order, fetched,
                                        NextHeap(heap, hnode, fetched, order))

MergeKeys(seqs, order) ==
    LET started == MergeStart(seqs, order, <<>>, <<>>)
    IN  MergeNext(seqs, order, started.sources, started.heap)

Reverse(s) == [i \in 1..Len(s) |-> s[Len(s) + 1 - i]]

\* ----------------------------------------------------------------- claims

\* C1: after a successful start over sources that are each sorted under the
\* key and the run's direction, the tuples next has returned so far are
\* sorted under that key and direction.
C1_Ordering ==
    (startOk /\ AllSourcesSorted) => SortedKeys(OutputKeys, merger.order)

C1_Witness ==
    /\ startOk /\ AllSourcesSorted /\ merger.order = -1
    /\ Len(output) = 4
    /\ output[1].key # output[4].key
    /\ output[1].src # output[2].src

\* C2: when next returns end-of-stream after a successful start, every tuple
\* the sources supplied has been returned exactly once.
C2_MultisetEquality ==
    (startOk /\ pc = "idle" /\ op = "next" /\ res = "nil") =>
        /\ Range(output) = Supplied
        /\ Cardinality(Range(output)) = Len(output)

C2_Witness ==
    /\ startOk /\ pc = "idle" /\ op = "next" /\ res = "nil"
    /\ Len(output) = 4
    /\ \E i, j \in 1..Len(inputs) : inputs[i].kind = "buffer" /\ inputs[j].kind = "function"

\* C3: when start finds a buffer with nothing in it, the index it reads
\* next in the source list is a later one.
C3_SkipsEmptyBuffer ==
    [][(pc = "iter" /\ elem.kind = "buffer" /\ ibuf_used(elem, rpos[StartIndex]) = 0)
        => StartIndex' > StartIndex]_vars

\* C4: after start fails with OutOfMemory, on a malformed header or on a
\* callable's value that is no tuple, the merger has no cursor, an empty
\* heap and no tuple reference.
C4_CleanAfterFailedStart ==
    (pc = "idle" /\ op = "start" /\ res \in {"OutOfMemory", "InvalidHeader", "TupleExpected"})
        => (merger.count = 0 /\ merger.heap = <<>> /\ held = {})

\* C5: the start that follows a start which failed on a malformed header
\* frees no allocation a second time and does not abort.
C5_ReusableAfterInvalidHeader ==
    [][(pc = "idle" /\ op = "start" /\ res = "InvalidHeader" /\ ~doubleFree /\ op' = "start")
        => (~doubleFree' /\ pc' # "crashed")]_vars

\* C6: destroy, from any state between operations, leaves no head tuple
\* held and no cursor unfreed, and frees nothing a second time.
C6_DestroyReleasesOnce ==
    [][(pc = "idle" /\ ~doubleFree /\ op' = "gc")
        => (~doubleFree' /\ pc' = "destroyed" /\ held' = {} /\ leaked' = 0)]_vars

\* C7: between operations the merger holds one tuple reference for each
\* cursor whose head is not none and no other.
C7_BoundedMemory ==
    pc = "idle" =>
        /\ held = HeadTuples(merger)
        /\ Cardinality(held) = Cardinality(LiveCursors)

C7_Witness ==
    /\ pc = "idle" /\ op = "next" /\ res = "tuple"
    /\ merger.count = 2
    /\ Cardinality(LiveCursors) = 1
    /\ Len(output) = 3

\* C8: when a callable raises an error, a failing start leaves no tuple
\* reference held and a failing next leaves none beyond the heads.
C8_NoReferenceAfterProducerFault ==
    (pc = "idle" /\ res = "ProducerFault") =>
        IF op = "start" THEN held = {} ELSE held \subseteq HeadTuples(merger)

\* C9: once destroy has run, or start has discarded the previous run, no
\* reference registered by an earlier start is left in the registry.
C9_FunctionRefsReleased ==
    (pc = "destroyed" \/ (pc = "start" /\ merger.count = 0)) => registry = {}

\* C10: once next has returned end-of-stream, a later next before the next
\* start returns end-of-stream and changes nothing.
C10_IdempotentEnd ==
    [][(pc = "idle" /\ eosSeen /\ op' = "next")
        => (res' = "nil" /\ UNCHANGED <<pc, merger, rpos, produced, polls, drained, registry, held,
                                         output, emitRefs, doubleFree, leaked>>)]_vars

C10_Witness ==
    /\ pc = "idle" /\ op = "next" /\ res = "nil" /\ eosSeen
    /\ merger.count = 2
    /\ Len(output) = 2

\* What a run is made of, and its value after the first lines of start on
\* a merger just constructed.
RunState ==
    <<merger.heap, merger.count, merger.capacity, merger.sources, merger.arr,
      inputs, elem, rpos, produced, held, output>>

StartedRun ==
    <<<<>>, 0, InitialCapacity, <<>>, "live", <<>>, NilElement, <<>>, <<>>, {}, <<>>>>

PartiallyDrained == startOk /\ output # <<>> /\ merger.heap # <<>>

\* C11: a start that succeeds in allocating after a partially drained run
\* releases every head of that run exactly once, holds no reference and no
\* cursor afterwards, and leaves the merger, the read positions and the
\* output in the very state in which the first start of a freshly
\* constructed merger leaves them for the same direction.
C11_Restartability ==
    [][(pc = "idle" /\ op' = "start" /\ pc' = "start" /\ (op = "new" \/ PartiallyDrained))
        => /\ RunState' = StartedRun
           /\ PartiallyDrained =>
                LET u == Unrefs(merger, 1)
                IN  /\ Range(u) = held
                    /\ \A t \in held : Cardinality({i \in 1..Len(u) : u[i] = t}) = 1]_vars

\* A run with two heads held and two tuples emitted, in which start can be
\* called again.
C11_Witness ==
    /\ pc = "idle" /\ PartiallyDrained /\ nstarts < MaxStarts
    /\ Cardinality(held) = 2
    /\ Len(output) = 2

\* C12: when a run over sources sorted for its direction has been drained,
\* the keys it returned are the keys of a whole run over these sources, and,
\* reversed, they are the keys of a whole run in the opposite direction over
\* the same sources each presented in the opposite order.
C12_DirectionSymmetry ==
    (startOk /\ pc = "idle" /\ op = "next" /\ res = "nil" /\ AllSourcesSorted) =>
        LET seqs == [i \in 1..Len(inputs) |-> SourceSeq(i)]
            mirror == [i \in 1..Len(inputs) |-> Reverse(SourceSeq(i))]
        IN  /\ OutputKeys = MergeKeys(seqs, merger.order)
            /\ Reverse(OutputKeys) = MergeKeys(mirror, -merger.order)

C12_Witness ==
    /\ startOk /\ pc = "idle" /\ op = "next" /\ res = "nil" /\ AllSourcesSorted
    /\ merger.order = -1
    /\ Len(inputs) = 2
    /\ OutputKeys = <<2, 2, 1, 1>>
    /\ SourceSeq(1) = <<2, 1>>

\* C13: cmp returns nil when the heap is empty and otherwise the direction
\* times the comparison of the top head with the key; it changes neither
\* the heap, the cursors, the direction, the tuple references, the registry,
\* the read positions nor what the producers have supplied.
C13_CmpNoSideEffects ==
    [][(pc = "idle" /\ op' = "cmp")
        => /\ pc' = "idle"
           /\ IF merger_heap_top(merger.heap) = 0
              THEN res' = "nil"
              ELSE /\ res' = "integer"
                   /\ \E key \in Keys :
                        val' = merger.order *
                               box_tuple_compare_with_key(
                                   merger.sources[merger_heap_top(merger.heap)].tuple, key)
           /\ UNCHANGED <<merger, inputs, rpos, produced, polls, drained, registry, held,
                          output, emitRefs>>]_vars

\* The four ways a wrapper is not {[IPROTO_DATA] = {...}}.
Deviates(h) ==
    \/ h.outer # "map"
    \/ h.size # 1
    \/ h.keytype # "uint" \/ h.key # IPROTO_DATA
    \/ h.val # "array"

\* C14: when start has allocated the cursor of a buffer that is not empty
\* and box_tuple_new does not fail, it fails with "Invalid merge source" if
\* the wrapper's outer value is no map, the map's size is not 1, its key is
\* not the unsigned IPROTO_DATA or its value is no array, and otherwise
\* counts the buffer as a source, whatever count the array header declares.
C14_HeaderValidation ==
    [][(pc = "iter" /\ elem.kind = "buffer" /\ ibuf_used(elem, rpos[StartIndex]) # 0
        /\ res' \notin {"OutOfMemory", "TupleNotBuilt"})
        => IF Deviates(elem.hdr)
           THEN pc' = "idle" /\ res' = "InvalidHeader"
           ELSE pc' = "start" /\ res' = "running"
                /\ merger'.count = merger.count + 1]_vars

\* A buffer whose array header declares no element has supplied two.
C14_Witness ==
    /\ startOk /\ Len(output) = 2
    /\ \E i \in 1..Len(inputs) :
         /\ inputs[i].kind = "buffer" /\ inputs[i].hdr.count = 0
         /\ output[1].src = i /\ output[2].src = i

\* C15: when new has raised an error, nothing it allocated is still
\* allocated.
C15_NewReleasesOnFailure ==
    pc = "failed" => allocs = {}

\* C16: between operations, a start or next that failed included, a cursor
\* of the array is in the heap exactly if it has a head.
C16_HeapMembership ==
    pc = "idle" =>
        \A j \in 1..merger.count :
            (j \in Range(merger.heap)) <=> (merger.sources[j].tuple # NoTuple)

\* C17: when next has returned a tuple, the tuple's reference count was
\* above zero before, between and after the two calls that hand it over,
\* the count it ends with is the one it began with, now the caller's, and
\* the merger holds no reference on the tuple.
C17_OwnershipTransfer ==
    (pc = "idle" /\ op = "next" /\ res = "tuple") =>
        /\ Len(emitRefs) = 3
        /\ \A k \in 1..Len(emitRefs) : emitRefs[k] > 0
        /\ emitRefs[3] = emitRefs[1]
        /\ output[Len(output)] \notin held

C17_Witness ==
    /\ pc = "idle" /\ op = "next" /\ res = "tuple"
    /\ emitRefs = <<1, 2, 1>>
    /\ Len(output) = 2 /\ Cardinality(held) = 2

\* C18: once a fetch has found that a producer has nothing more, no next
\* and no cmp of the run calls that callable or reads that buffer again.
C18_DrainedNeverPolled ==
    [][(pc = "idle" /\ op' \in {"next", "cmp"})
        => \A i \in drained : polls'[i] = polls[i]]_vars

\* The first source was found drained by its third fetch; next has gone on
\* to return the tuples of the second.
C18_Witness ==
    /\ pc = "idle" /\ op = "next" /\ res = "tuple"
    /\ 1 \in drained /\ polls[1] = 3
    /\ Len(output) = 4 /\ output[4].src = 2 /\ output[3].src = 2

\* C19: when box_tuple_new has failed in a fetch of start or next, the
\* operation has come back to its caller, every cursor in the heap has a
\* head, and the merger holds the references of its heads and no other.
C19_TupleConstructionFailure ==
    res = "TupleNotBuilt" =>
        /\ pc = "idle"
        /\ \A j \in Range(merger.heap) : merger.sources[j].tuple # NoTuple
        /\ held = HeadTuples(merger)

\* The tuples next has returned that came from inputs[i], in the order in
\* which it returned them.
EmittedFrom(i) ==
    LET from_i(t) == t.src = i
    IN  SelectSeq(output, from_i)

\* C20: whether or not the sources are sorted, the tuples returned from one
\* source are, in the order returned, the first tuples that source supplied
\* in the order it supplied them.
C20_NoReorderingWithinSource ==
    \A i \in 1..Len(inputs) :
        LET e == EmittedFrom(i)
        IN  /\ Len(e) <= Len(SourceSeq(i))
            /\ \A k \in 1..Len(e) : e[k].n = k /\ e[k].key = SourceSeq(i)[k]

C20_Witness ==
    /\ Len(inputs) = 2 /\ Len(output) = 4
    /\ merger.order = 1
    /\ inputs[1].kind = "buffer" /\ inputs[1].recs = <<2, 1>>
    /\ inputs[2].kind = "function"
    /\ output[1].src = 2 /\ output[2].src = 2 /\ output[3].src = 1 /\ output[4].src = 1
    /\ OutputKeys = <<1, 2, 2, 1>>

\* C21: a call of next leaves the number of cursors, the capacity and the
\* pointer of the array and the direction as they were, leaves every cursor
\* but the one at the top of the heap as it was, keeps the producer of the
\* top cursor, and takes no cursor out of the heap and puts none in, except
\* that it takes out the top cursor when the fetch found its source drained.
C21_NextFrame ==
    [][(pc = "idle" /\ op' = "next")
        => LET top == merger_heap_top(merger.heap)
           IN  /\ merger'.count = merger.count
               /\ merger'.capacity = merger.capacity
               /\ merger'.arr = merger.arr
               /\ merger'.order = merger.order
               /\ Len(merger'.sources) = Len(merger.sources)
               /\ \A j \in 1..merger.count :
                    /\ j # top => merger'.sources[j] = merger.sources[j]
                    /\ merger'.sources[j].source_type = merger.sources[j].source_type
                    /\ merger'.sources[j].input = merger.sources[j].input
                    /\ merger'.sources[j].next_ref = merger.sources[j].next_ref
               /\ registry' = registry
               /\ \/ Range(merger'.heap) = Range(merger.heap)
                  \/ /\ top # 0
                     /\ Range(merger'.heap) = Range(merger.heap) \ {top}
                     /\ merger.sources[top].input \in drained'
                     /\ merger'.sources[top].tuple = NoTuple]_vars

\* next has taken the drained top cursor out of the heap and left the other
\* cursor in it.
C21_Witness ==
    /\ pc = "idle" /\ op = "next" /\ res = "tuple"
    /\ merger.count = 2 /\ Len(merger.heap) = 1
    /\ Len(output) = 2
    /\ output[2].src \in drained
    /\ merger.sources[merger.heap[1]].input # output[2].src

\* C22: the write position of a buffer stays where it is, the read position
\* of a buffer never moves back and is never beyond the write position, in
\* start and in next, and a fetch on a buffer cursor finds the buffer
\* drained exactly if the two are equal.
C22_BufferPositions ==
    [][\A i \in 1..Len(inputs) :
         (inputs[i].kind = "buffer" /\ i <= Len(inputs') /\ nstarts' = nstarts)
           => /\ wpos(inputs'[i]) = wpos(inputs[i])
              /\ rpos'[i] >= rpos[i]
              /\ rpos'[i] <= wpos(inputs'[i])
              /\ (polls'[i] # polls[i] /\ res' # "TupleNotBuilt")
                    => (i \in drained' <=> /\ rpos'[i] = wpos(inputs'[i])
                                            /\ produced'[i] = produced[i])]_vars

\* C23: once start has been called, the order of the run is +1 if the
\* direction given was 0 or more and -1 if it was less than 0, until the
\* next start; and between operations no head in the heap comes, under the
\* order times the comparison of the keys, before the head at the top.
C23_DirectionSign ==
    nstarts > 0 =>
        /\ direction >= 0 => merger.order = 1
        /\ direction < 0 => merger.order = -1
        /\ LET top == merger_heap_top(merger.heap)
           IN  (pc = "idle" /\ top # 0 /\ merger.sources[top].tuple # NoTuple) =>
                 \A j \in Range(merger.heap) :
                     merger.sources[j].tuple # NoTuple =>
                       merger.order * box_tuple_compare(merger.sources[top].tuple,
                                                        merger.sources[j].tuple) <= 0

\* A run started with direction 0 has returned a tuple and has the greater
\* of two heads below the top.
C23_Witness ==
    /\ pc = "idle" /\ op = "next" /\ direction = 0 /\ merger.order = 1
    /\ Len(output) = 1
    /\ Len(merger.heap) = 2
    /\ output[1].key <= merger.sources[merger.heap[1]].tuple.key
    /\ merger.sources[merger.heap[1]].tuple.key < merger.sources[merger.heap[2]].tuple.key

\* C24: a call of start, next or cmp that is turned down for its arguments
\* leaves the cursors, their heads and producers, the heap, the direction,
\* the tuple references, the registry and the buffers' read positions as
\* they were before the call.
C24_RejectedCallFrame ==
    [][op' = "rejected"
        => /\ res' \in {"BadParamsStart", "BadParamsNext", "BadParamsCmp"}
           /\ UNCHANGED <<pc, merger, inputs, rpos, produced, polls, drained,
                          registry, held, output, emitRefs, startOk, eosSeen,
                          direction, allocs, leaked, doubleFree>>]_vars

\* start has been turned down in a run with two heads in the heap and one
\* tuple returned.
C24_Witness ==
    /\ pc = "idle" /\ op = "rejected" /\ res = "BadParamsStart"
    /\ startOk /\ Len(output) = 1
    /\ Len(merger.heap) = 2 /\ Cardinality(held) = 2

====
